---------------------------- MODULE Spec2Model ----------------------------
(***************************************************************************)
(* Model of the guitar_pedal looper: the PlaybackManager (audio callback), *)
(* the LoopManager (loop register state machine) and the Interface, joined *)
(* by the two sample ring buffers and the loop-message channel.            *)
(*                                                                         *)
(* Samples are integers (amplitude in thousandths of full scale).  The     *)
(* timing constants are scaled down: one beat is samples_per_beat samples. *)
(***************************************************************************)
EXTENDS Integers, Sequences, FiniteSets, TLC

(***************************************************************************)
(* Program constants (scaled) and model bounds                             *)
(***************************************************************************)
\* constants::BUFFER_SIZE, the JACK buffer frame
BUFFER_SIZE == 1
\* constants::NUM_LOOPS, loop registers (index 0 is the metronome)
NUM_LOOPS == 3
\* init(): samples_per_beat = SAMPLES_PER_MINUTE / bpm
samples_per_beat == 1
\* sync_channel(5) of loop messages and of effect messages
MESSAGE_CAPACITY == 5

\* horizon: samples the audio transport delivers in one run
MaxSamples == 14
\* MIDI events the control surface produces in one run
MaxCmds == 3
\* loop messages waiting in the channel at one time
MaxPending == 1
\* constants::SAMPLES_PER_MINUTE (scaled)
SAMPLES_PER_MINUTE == 12
\* tempi tried at startup: 1 .. MaxBpm beats per minute
MaxBpm == 14
\* click recordings tried at startup: 0 .. MaxClick samples long
MaxClick == 4

\* horizon of a run in which the loop engine keeps pace with the callback
MaxPacedSamples == 20
\* MIDI events the control surface produces in such a run
MaxPacedCmds == 4

\* horizon and MIDI events of a run in which both threads are scheduled
\* fairly
MaxLiveSamples == 14
MaxLiveCmds == 2
\* loop messages waiting in the channel at one time in such a run
MaxLivePending == 2

samples_per_measure == samples_per_beat * 4
RingCapacityOneMeasure == samples_per_measure
RING_CAPACITY == samples_per_measure * 2

\* the n-th sample the audio transport delivers (n = 1, 2, ...): every
\* sample carries its own tag, so that a buffer shows which samples it
\* holds; neither engine branches on a sample's value
InputAt(n) == 100 * n

\* metronome click arrays read from storage
big_tick == <<3>>
little_tick == <<1>>

LoopIds == 0 .. (NUM_LOOPS - 1)

(***************************************************************************)
(* Data model                                                              *)
(***************************************************************************)
\* enum LoopStatus
Off == [s |-> "Off", x |-> 0]
On(n) == [s |-> "On", x |-> n]
RecordStart == [s |-> "RecordStart", x |-> 0]
Recording == [s |-> "Recording", x |-> 0]
RecordEnd == [s |-> "RecordEnd", x |-> 0]
Empty == [s |-> "Empty", x |-> 0]

\* enum Sample
Data(v) == <<"Data", v>>
Tick == <<"Tick", 0>>
PreTick == <<"PreTick", 0>>

\* enum LoopMessage
ToggleLoop(i) == <<"ToggleLoop", i>>
StopRecording == <<"StopRecording", 0>>

VARIABLES
    \* LoopManager
    loops, lengths, status, any_recording, recording_at_index,
    \* LoopManager control: position in run / enqueue_loops / finish_recording_loop
    lpc, mix_i, active_loops, partial_recording,
    \* PlaybackManager
    sample_counter, compress, distort, output, ppc,
    \* ring buffers and channels
    stream, playback, loop_messages, effect_messages,
    \* history: kinds of the events pushed to stream, number of samples
    \* fed, number of MIDI events, the LoopManager's last completed handler,
    \* and each loop's buffer length and length_measures when its
    \* StopRecording was handled
    sent, fed, cmds, last_handled, stop_len,
    \* the values the current enqueue_loops has pushed and the statuses it
    \* started from
    mixed, pre_status,
    \* for every loop the measure offsets mixed since it was last switched
    \* on or off (a recording loop: since it was armed)
    played,
    \* scheduling of the run: "free", or "paced" when the audio callback
    \* fires only after the loop engine has emptied the sample stream
    pace,
    \* the call under study when one function of the program is run on its
    \* own: its arguments and, once it has returned, its result
    calc

vars == <<loops, lengths, status, any_recording, recording_at_index,
          lpc, mix_i, active_loops, partial_recording,
          sample_counter, compress, distort, output, ppc,
          stream, playback, loop_messages, effect_messages,
          sent, fed, cmds, last_handled, stop_len, mixed, pre_status, played, pace, calc>>

loopVars == <<loops, lengths, status, any_recording, recording_at_index>>
mixVars == <<mix_i, active_loops, partial_recording>>
playVars == <<sample_counter, compress, distort, output, ppc>>
histVars == <<sent, fed, cmds>>
ghostVars == <<last_handled, stop_len, mixed, pre_status, played, pace, calc>>

(***************************************************************************)
(* Helpers                                                                 *)
(***************************************************************************)
Zeros(n) == [j \in 1 .. n |-> 0]

RECURSIVE SumOver(_, _)
SumOver(S, f) ==
    IF S = {} THEN 0
    ELSE LET e == CHOOSE e \in S : TRUE IN f[e] + SumOver(S \ {e}, f)

Min(a, b) == IF a < b THEN a ELSE b
(***************************************************************************)
(* LoopManager::new: the metronome loop and the initial register           *)
(***************************************************************************)
\* mutant: the measure is assembled with two soft clicks
MetronomeTwoSoft(big, little, spb) ==
    LET silence == spb - Len(little)
        pad == IF Len(big) < spb THEN spb - Len(big) ELSE 0
        soft == little \o Zeros(silence)
    IN big \o Zeros(pad) \o soft \o soft

\* the metronome measure: loud click padded to a beat, then three soft
\* clicks each followed by `silence` zeros
Metronome(big, little, spb) ==
    LET silence == spb - Len(little)
        pad == IF Len(big) < spb THEN spb - Len(big) ELSE 0
        soft == little \o Zeros(silence)
    IN big \o Zeros(pad) \o soft \o soft \o soft

\* init: the tempo in samples
init_samples_per_beat(bpm) == SAMPLES_PER_MINUTE \div bpm
init_samples_per_measure(bpm) == init_samples_per_beat(bpm) * 4

\* LoopManager::new up to its sanity check: the ways it can end.  A soft
\* click longer than a beat makes `samples_per_beat - little_tick.len()`
\* underflow: a panic where overflow is checked, otherwise a wrapped count
\* of zeros to push that ends in an allocation failure
NewMetronome(big, little, spb) ==
    IF Len(little) > spb
    THEN {[ok |-> FALSE, why |-> "attempt to subtract with overflow", metronome |-> <<>>],
          [ok |-> FALSE, why |-> "memory allocation failed", metronome |-> <<>>]}
    ELSE LET m == Metronome(big, little, spb)
         IN IF Len(m) # spb * 4
            THEN {[ok |-> FALSE, why |-> "assert_eq", metronome |-> <<>>]}
            ELSE {[ok |-> TRUE, why |-> "", metronome |-> m]}

\* a click recording of n samples
Click(n) == [j \in 1 .. n |-> j]

InitLoops == [i \in LoopIds |-> IF i = 0 THEN Metronome(big_tick, little_tick, samples_per_beat) ELSE <<>>]
InitLengths == [i \in LoopIds |-> IF i = 0 THEN 1 ELSE 0]
InitStatusAllEmpty == [i \in LoopIds |-> Empty]
InitStatus == [i \in LoopIds |-> IF i = 0 THEN On(0) ELSE Empty]

\* mutant: the prefill is one sample short of a measure
PrefillShort == Tail(InitLoops[0])

\* new() pushes the first metronome measure so playback starts ahead (the
\* metronome is samples_per_measure long, new() has asserted it)
Prefill == [i \in 1 .. Min(samples_per_measure, Len(InitLoops[0])) |-> InitLoops[0][i]]

Booted ==
    /\ loops = InitLoops
    /\ lengths = InitLengths
    /\ status = InitStatus
    /\ any_recording = FALSE
    /\ recording_at_index = 0
    /\ lpc = "run"
    /\ mix_i = 0
    /\ active_loops = {}
    /\ partial_recording = FALSE
    /\ sample_counter = 0
    /\ compress = FALSE
    /\ distort = FALSE
    /\ output = Zeros(BUFFER_SIZE)
    /\ ppc = "idle"
    /\ stream = <<>>
    /\ playback = Prefill
    /\ loop_messages = <<>>
    /\ effect_messages = <<>>
    /\ sent = <<>>
    /\ fed = 0
    /\ cmds = 0
    /\ last_handled = <<>>
    /\ stop_len = [i \in LoopIds |-> <<>>]
    /\ mixed = <<>>
    /\ pre_status = <<>>
    /\ played = [i \in LoopIds |-> <<>>]

\* the callback and the loop engine run unsynchronised
Init == Booted /\ pace = "free" /\ calc = <<>>

\* the loop engine keeps pace with the callback
InitPaced == Booted /\ pace = "paced" /\ calc = <<>>

\* the callback and the loop engine run unsynchronised, each scheduled fairly
InitLive == Booted /\ pace = "live" /\ calc = <<>>

\* the control surface is idle and the holder of the effect channel's
\* sender is at work
InitEffects == Booted /\ pace = "effects" /\ calc = <<>>

\* loop messages the channel is let hold in the run
Waiting == IF pace = "live" THEN MaxLivePending ELSE MaxPending

\* samples the audio transport delivers in the run
Horizon ==
    IF pace = "paced" THEN MaxPacedSamples
    ELSE IF pace = "live" THEN MaxLiveSamples
    ELSE MaxSamples

\* MIDI events the control surface produces in the run
Presses ==
    IF pace = "paced" THEN MaxPacedCmds
    ELSE IF pace = "live" THEN MaxLiveCmds
    ELSE MaxCmds

(***************************************************************************)
(* PlaybackManager                                                         *)
(***************************************************************************)
\* peak-to-peak spread of the block; the dB value 20*log10(max - min) is
\* compared with the threshold through the spread itself
Spread(buffer) ==
    LET mx == CHOOSE m \in {buffer[j] : j \in DOMAIN buffer} :
                  \A j \in DOMAIN buffer : buffer[j] <= m
        mn == CHOOSE m \in {buffer[j] : j \in DOMAIN buffer} :
                  \A j \in DOMAIN buffer : buffer[j] >= m
    IN mx - mn

\* 10^(-30/20) of full scale, in thousandths (rounded up)
THRESHOLD_SPREAD == 32

\* compressor(): scale in thousandths; (peak-thr)*(1/4-1) + thr*(1/4-1) is
\* peak*(-3/4), so the scale is spread^(-3/4), tabulated coarsely
compressor(buffer) ==
    LET d == Spread(buffer)
    IN IF d >= THRESHOLD_SPREAD
       THEN CASE d >= 2000 -> 595
              [] d >= 1000 -> 1000
              [] d >= 500 -> 1682
              [] d >= 200 -> 3344
              [] d >= 100 -> 5623
              [] OTHER -> 13335
       ELSE 1000

\* atan in thousandths of a radian for x in thousandths (rational fit)
AtanMilli(x) ==
    IF x <= 1000 THEN (x * 1000000) \div (1000000 + (28 * x * x) \div 100)
    ELSE 1571 - (x * 1000) \div ((x * x + 280000) \div 1000)

\* table[k] = atan(k*3/1000)*0.8, in thousandths
table(k) == (8 * AtanMilli(3 * k)) \div 10

\* the waveshape closure; x is the sample in thousandths, so
\* (x*1000.0).trunc() is x itself
waveshape(x) ==
    IF x >= 0 /\ x < 1000 THEN table(x)
    ELSE IF x < 0 /\ x > -1000 THEN 0 - table(0 - x)
    ELSE IF x > 1000 THEN table(999)
    ELSE 0 - table(999)

distortion(buffer) == [j \in DOMAIN buffer |-> waveshape(buffer[j])]

\* process_block up to the hand-over to send_stream
Effects(input, comp, dist) ==
    LET scaled == IF comp
                  THEN [j \in DOMAIN input |-> (input[j] * compressor(input)) \div 1000]
                  ELSE input
        wet == distortion(scaled)
    IN IF dist
       THEN [j \in DOMAIN scaled |-> (scaled[j] * 9 + wet[j]) \div 10]
       ELSE scaled

\* one push to the stream ring buffer; a full buffer is the
\* "stream ring buffer full" panic
PushStream(st, e) ==
    IF ~st.ok THEN st
    ELSE IF Len(st.q) >= RING_CAPACITY THEN [st EXCEPT !.ok = FALSE]
    ELSE [st EXCEPT !.q = Append(@, e), !.h = Append(@, e[1])]

\* mutant: the Tick is pushed one sample early
ClockMarkEarlyTick(st) ==
    LET remaining_samples_in_measure == samples_per_measure - st.c
    IN IF remaining_samples_in_measure = 1
       THEN [PushStream(st, Tick) EXCEPT !.c = 0]
       ELSE IF remaining_samples_in_measure = BUFFER_SIZE
       THEN PushStream(st, PreTick)
       ELSE st

\* mutant: the PreTick is pushed one sample early
ClockMarkEarlyPreTick(st) ==
    LET remaining_samples_in_measure == samples_per_measure - st.c
    IN IF remaining_samples_in_measure = 0
       THEN [PushStream(st, Tick) EXCEPT !.c = 0]
       ELSE IF remaining_samples_in_measure = BUFFER_SIZE + 1
       THEN PushStream(st, PreTick)
       ELSE st

\* mutant: a second PreTick is pushed one sample before the first
ClockMarkTwoPreTicks(st) ==
    LET remaining_samples_in_measure == samples_per_measure - st.c
    IN IF remaining_samples_in_measure = 0
       THEN [PushStream(st, Tick) EXCEPT !.c = 0]
       ELSE IF remaining_samples_in_measure \in {BUFFER_SIZE, BUFFER_SIZE + 1}
       THEN PushStream(st, PreTick)
       ELSE st

\* the clock marker send_stream pushes before a sample
ClockMark(st) ==
    LET remaining_samples_in_measure == samples_per_measure - st.c
    IN IF remaining_samples_in_measure = 0
       THEN [PushStream(st, Tick) EXCEPT !.c = 0]
       ELSE IF remaining_samples_in_measure = BUFFER_SIZE
       THEN PushStream(st, PreTick)
       ELSE st

\* mutant: the sample counter is not advanced
SendOneNoCount(st, v) == PushStream(ClockMark(st), Data(v))

\* mutant: the sample counter advances by two
SendOneCountsTwice(st, v) ==
    LET b == PushStream(ClockMark(st), Data(v))
    IN IF b.ok THEN [b EXCEPT !.c = @ + 2] ELSE b

\* mutant: the sample is sent with the loop audio already added to it
SendOneAfterLoops(st, v) ==
    LET w == IF playback = <<>> THEN v ELSE v + Head(playback)
        b == PushStream(ClockMark(st), Data(w))
    IN IF b.ok THEN [b EXCEPT !.c = @ + 1] ELSE b

\* the body of send_stream's loop for one sample
SendOne(st, v) ==
    LET b == PushStream(ClockMark(st), Data(v))
    IN IF b.ok THEN [b EXCEPT !.c = @ + 1] ELSE b

RECURSIVE send_stream(_, _)
send_stream(st, block) ==
    IF block = <<>> THEN st
    ELSE send_stream(SendOne(st, Head(block)), Tail(block))

\* the block the audio transport delivers next
Blocks == {[j \in 1 .. BUFFER_SIZE |-> InputAt(fed + j)]}

\* enum EffectMessage
EffectMessages == {"ToggleCompression", "ToggleDistortion"}

\* a send on effects_message_sender, the sync_channel(5) that check_messages
\* of the PlaybackManager polls
SendEffect(m) ==
    /\ cmds < Presses
    /\ Len(effect_messages) < MESSAGE_CAPACITY
    /\ effect_messages' = Append(effect_messages, m)
    /\ cmds' = cmds + 1
    /\ UNCHANGED <<loopVars, lpc, mixVars, playVars, stream, playback,
                   loop_messages, sent, fed, ghostVars>>

\* mutant: ToggleDistortion flips both flags
EffectsAfterMessageBoth ==
    IF effect_messages = <<>> THEN <<compress, distort>>
    ELSE IF Head(effect_messages) = "ToggleDistortion" THEN <<~compress, ~distort>>
    ELSE <<~compress, distort>>

\* check_messages of the PlaybackManager: at most one message per block
EffectsAfterMessage ==
    IF effect_messages = <<>> THEN <<compress, distort>>
    ELSE IF Head(effect_messages) = "ToggleDistortion" THEN <<compress, ~distort>>
    ELSE <<~compress, distort>>

\* process_block, first half: poll effects, apply them, send_stream
ProcessBlock(input) ==
    /\ ppc = "idle"
    /\ fed + BUFFER_SIZE <= Horizon
    /\ pace = "paced" => stream = <<>>
    /\ LET fx == EffectsAfterMessage
           processed == Effects(input, fx[1], fx[2])
           st == send_stream([c |-> sample_counter, q |-> stream, h |-> sent, ok |-> TRUE],
                             processed)
       IN /\ compress' = fx[1]
          /\ distort' = fx[2]
          /\ effect_messages' = IF effect_messages = <<>> THEN <<>> ELSE Tail(effect_messages)
          /\ output' = processed
          /\ stream' = st.q
          /\ sent' = st.h
          /\ sample_counter' = st.c
          /\ fed' = fed + Len(input)
          /\ ppc' = IF st.ok THEN "play" ELSE "dead"
    /\ UNCHANGED <<loopVars, lpc, mixVars, playback, loop_messages, cmds, ghostVars>>

\* mutant: the popped samples replace the processed input
PlayLoopsOverwrite ==
    /\ ppc = "play"
    /\ LET n == Min(Len(playback), BUFFER_SIZE)
       IN /\ playback' = SubSeq(playback, n + 1, Len(playback))
          /\ output' = [j \in 1 .. BUFFER_SIZE |->
                           IF j <= n THEN playback[j] ELSE output[j]]
          /\ ppc' = IF n = BUFFER_SIZE THEN "idle" ELSE "dead"
    /\ UNCHANGED <<loopVars, lpc, mixVars, sample_counter, compress, distort,
                   stream, loop_messages, effect_messages, histVars, ghostVars>>

\* mutant: an empty loop buffer is survived
PlayLoopsSurvives ==
    /\ ppc = "play"
    /\ LET n == Min(Len(playback), BUFFER_SIZE)
       IN /\ playback' = SubSeq(playback, n + 1, Len(playback))
          /\ output' = [j \in 1 .. BUFFER_SIZE |->
                           IF j <= n THEN output[j] + playback[j] ELSE output[j]]
          /\ ppc' = "idle"
    /\ UNCHANGED <<loopVars, lpc, mixVars, sample_counter, compress, distort,
                   stream, loop_messages, effect_messages, histVars, ghostVars>>

\* play_loops: one pop per output sample; an empty buffer is the
\* "loop buffer empty" panic
PlayLoops ==
    /\ ppc = "play"
    /\ LET n == Min(Len(playback), BUFFER_SIZE)
       IN /\ playback' = SubSeq(playback, n + 1, Len(playback))
          /\ output' = [j \in 1 .. BUFFER_SIZE |->
                           IF j <= n THEN output[j] + playback[j] ELSE output[j]]
          /\ ppc' = IF n = BUFFER_SIZE THEN "idle" ELSE "dead"
    /\ UNCHANGED <<loopVars, lpc, mixVars, sample_counter, compress, distort,
                   stream, loop_messages, effect_messages, histVars, ghostVars>>
(***************************************************************************)
(* Interface                                                               *)
(***************************************************************************)
LOOP_BASE_KEY == 36
MIDI_NOTE_DOWN == 144
MIDI_CONTROL == 176
SUSTAIN_PEDAL == 64

\* MIDI events the control surface produces: a key press per loop register
\* and the sustain pedal going down
MidiEvents ==
    {<<MIDI_NOTE_DOWN, LOOP_BASE_KEY + i, 100>> : i \in LoopIds}
        \cup {<<MIDI_CONTROL, SUSTAIN_PEDAL, 0>>}

\* width of usize (scaled): `data[1] as usize - 36` is computed in it
USIZE_BITS == 16
USIZE_MODULUS == 2 ^ USIZE_BITS

\* the message Interface::run sends for a MIDI event (<<>> when it sends
\* none), the subtraction wrapping
InterfaceMessage(data) ==
    IF data[1] = MIDI_NOTE_DOWN /\ data[2] < LOOP_BASE_KEY + NUM_LOOPS
    THEN <<ToggleLoop((data[2] - LOOP_BASE_KEY) % USIZE_MODULUS)>>
    ELSE IF data[1] = MIDI_CONTROL /\ data[2] = SUSTAIN_PEDAL /\ data[3] <= 63
    THEN <<StopRecording>>
    ELSE <<>>

\* the ways one iteration of Interface::run can end for a MIDI event: the
\* messages it sends and whether the thread lives on.  For a note-on below
\* LOOP_BASE_KEY the subtraction underflows: a panic where overflow is
\* checked, a wrapped index otherwise
InterfaceOutcomes(data) ==
    IF data[1] = MIDI_NOTE_DOWN /\ data[2] < LOOP_BASE_KEY
    THEN {[msgs |-> <<>>, alive |-> FALSE],
          [msgs |-> InterfaceMessage(data), alive |-> TRUE]}
    ELSE {[msgs |-> InterfaceMessage(data), alive |-> TRUE]}

\* the keys lib.rs reserves for the effects
DISTORTION_KEY == 95
COMPRESSION_KEY == 96

\* data bytes a MIDI device can send (a sample of the byte range around the
\* values the code tests)
StatusBytes == {128, MIDI_NOTE_DOWN, MIDI_CONTROL}
KeyBytes == {0, LOOP_BASE_KEY - 1, LOOP_BASE_KEY, LOOP_BASE_KEY + 1,
             LOOP_BASE_KEY + NUM_LOOPS - 1, LOOP_BASE_KEY + NUM_LOOPS,
             SUSTAIN_PEDAL, DISTORTION_KEY, COMPRESSION_KEY, 127, 255}
ValueBytes == {0, 63, 64, 100}
AnyMidi == {<<a, b, c>> : a \in StatusBytes, b \in KeyBytes, c \in ValueBytes}

\* one iteration of Interface::run for any MIDI event
MidiArrives ==
    /\ pace = "midi"
    /\ ~calc.done
    /\ \E o \in InterfaceOutcomes(calc.data) :
           /\ loop_messages' = loop_messages \o o.msgs
           /\ calc' = [calc EXCEPT !.done = TRUE, !.alive = o.alive]
    /\ cmds' = cmds + 1
    /\ UNCHANGED <<loopVars, lpc, mixVars, playVars, stream, playback,
                   effect_messages, sent, fed, last_handled, stop_len, mixed,
                   pre_status, played, pace>>

\* one iteration of Interface::run; send blocks while the channel is full
InterfaceRun(data) ==
    /\ cmds < Presses
    /\ Len(loop_messages) < Waiting
    /\ pace = "paced" => loop_messages = <<>>
    /\ Len(loop_messages) + Len(InterfaceMessage(data)) <= MESSAGE_CAPACITY
    /\ loop_messages' = loop_messages \o InterfaceMessage(data)
    /\ cmds' = cmds + 1
    /\ UNCHANGED <<loopVars, lpc, mixVars, playVars, stream, playback,
                   effect_messages, sent, fed, ghostVars>>

(***************************************************************************)
(* LoopManager                                                             *)
(***************************************************************************)
RecordSampleAlways(ls, rec, at, v) == [ls EXCEPT ![at] = Append(@, v)]

\* run: Sample::Data(sample)
RecordSample(ls, rec, at, v) ==
    IF rec THEN [ls EXCEPT ![at] = Append(@, v)] ELSE ls

PopData ==
    /\ lpc = "run"
    /\ stream # <<>>
    /\ Head(stream)[1] = "Data"
    /\ stream' = Tail(stream)
    /\ loops' = RecordSample(loops, any_recording, recording_at_index, Head(stream)[2])
    /\ lpc' = "run"
    /\ UNCHANGED <<lengths, status, any_recording, recording_at_index, mixVars,
                   playVars, playback, loop_messages, effect_messages, histVars>>
    /\ last_handled' = <<>>
    /\ UNCHANGED <<stop_len, pace, played, calc>>
    /\ mixed' = <<>>
    /\ pre_status' = <<>>

\* update_recording_status: the register after a Tick, as a record
\* [lengths, status, any, at, ok]; ok = FALSE is the
\* "recording should be finished by other func" panic
Pending == {i \in LoopIds : status[i] \in {RecordEnd, RecordStart}}

FirstPending == CHOOSE i \in Pending : \A j \in Pending : i <= j

\* mutant: the length at the recording index grows at every Tick
update_recording_status_grows ==
    LET same == [lengths |-> lengths, status |-> status, any |-> any_recording,
                 at |-> recording_at_index, ok |-> TRUE]
        grown == [same EXCEPT !.lengths[recording_at_index] = @ + 1]
    IN IF any_recording THEN grown
       ELSE IF Pending = {} THEN grown
       ELSE IF status[FirstPending] = RecordEnd THEN [same EXCEPT !.ok = FALSE]
       ELSE [same EXCEPT !.status[FirstPending] = Recording,
                         !.any = TRUE,
                         !.at = FirstPending]

\* mutant: the scan does not return at the first pending loop
update_recording_status_all ==
    LET same == [lengths |-> lengths, status |-> status, any |-> any_recording,
                 at |-> recording_at_index, ok |-> TRUE]
    IN IF any_recording
       THEN [same EXCEPT !.lengths[recording_at_index] = @ + 1]
       ELSE IF Pending = {} THEN same
       ELSE IF status[FirstPending] = RecordEnd THEN [same EXCEPT !.ok = FALSE]
       ELSE [same EXCEPT !.status = [i \in LoopIds |->
                                        IF status[i] = RecordStart THEN Recording
                                        ELSE status[i]],
                         !.any = TRUE,
                         !.at = FirstPending]

update_recording_status ==
    LET same == [lengths |-> lengths, status |-> status, any |-> any_recording,
                 at |-> recording_at_index, ok |-> TRUE]
    IN IF any_recording
       THEN [same EXCEPT !.lengths[recording_at_index] = @ + 1]
       ELSE IF Pending = {} THEN same
       ELSE IF status[FirstPending] = RecordEnd THEN [same EXCEPT !.ok = FALSE]
       ELSE [same EXCEPT !.status[FirstPending] = Recording,
                         !.any = TRUE,
                         !.at = FirstPending]

PopTick ==
    /\ lpc = "run"
    /\ stream # <<>>
    /\ Head(stream) = Tick
    /\ stream' = Tail(stream)
    /\ LET r == update_recording_status
       IN /\ lengths' = r.lengths
          /\ status' = r.status
          /\ any_recording' = r.any
          /\ recording_at_index' = r.at
          /\ lpc' = IF r.ok THEN "run" ELSE "dead"
    /\ UNCHANGED <<loops, mixVars, playVars, playback, loop_messages,
                   effect_messages, histVars>>
    /\ last_handled' = <<>>
    /\ UNCHANGED <<stop_len, pace, played, calc>>
    /\ mixed' = <<>>
    /\ pre_status' = <<>>

\* enqueue_loops: (offset, loop index) of every On or RecordEnd loop
ActiveLoops(st) ==
    {<<st[i].x, i>> : i \in {j \in LoopIds : st[j].s \in {"On", "RecordEnd"}}}

\* mutant: a loop pending completion is not noticed
PopPreTickNoPartial ==
    /\ lpc = "run"
    /\ stream # <<>>
    /\ Head(stream) = PreTick
    /\ stream' = Tail(stream)
    /\ partial_recording' = FALSE
    /\ active_loops' = ActiveLoops(status)
    /\ mix_i' = 0
    /\ lpc' = "mix"
    /\ UNCHANGED <<loopVars, playVars, playback, loop_messages,
                   effect_messages, histVars>>
    /\ last_handled' = <<>>
    /\ UNCHANGED <<stop_len, pace, calc>>
    /\ played' = [i \in LoopIds |->
                     IF status[i].s \in {"On", "RecordEnd"}
                     THEN Append(played[i], status[i].x) ELSE played[i]]
    /\ mixed' = <<>>
    /\ pre_status' = status

\* run: Sample::PreTick enters enqueue_loops
PopPreTick ==
    /\ lpc = "run"
    /\ stream # <<>>
    /\ Head(stream) = PreTick
    /\ stream' = Tail(stream)
    /\ partial_recording' = (status[recording_at_index] = RecordEnd)
    /\ active_loops' = ActiveLoops(status)
    /\ mix_i' = 0
    /\ lpc' = "mix"
    /\ UNCHANGED <<loopVars, playVars, playback, loop_messages,
                   effect_messages, histVars>>
    /\ last_handled' = <<>>
    /\ UNCHANGED <<stop_len, pace, calc>>
    /\ played' = [i \in LoopIds |->
                     IF status[i].s \in {"On", "RecordEnd"}
                     THEN Append(played[i], status[i].x) ELSE played[i]]
    /\ mixed' = <<>>
    /\ pre_status' = status

MixIndexNoOffset(offset, i) == i

\* the index enqueue_loops reads in a loop buffer for position i (0-based)
MixIndex(offset, i) == offset * samples_per_measure + i

\* every read of position i is inside its buffer
MixInBounds(ls, act, i) ==
    \A a \in act : MixIndex(a[1], i) < Len(ls[a[2]])

\* the fold that mixes one sample
MixedSample(ls, act, i) ==
    SumOver(act, [a \in act |-> ls[a[2]][MixIndex(a[1], i) + 1]])

\* mutant: the last measure is not counted
FinishStartKeepLength ==
    /\ lengths' = lengths
    /\ status' = [status EXCEPT ![recording_at_index] = On(0)]
    /\ any_recording' = FALSE

FinishStartStillRecording ==
    /\ lengths' = [lengths EXCEPT ![recording_at_index] = @ + 1]
    /\ status' = [status EXCEPT ![recording_at_index] = On(0)]
    /\ any_recording' = any_recording

\* mutant: the status is left at RecordEnd
FinishStartStaysRecordEnd ==
    /\ lengths' = [lengths EXCEPT ![recording_at_index] = @ + 1]
    /\ status' = status
    /\ any_recording' = FALSE

\* finish_recording_loop, up to its drain loop
FinishStart ==
    /\ lengths' = [lengths EXCEPT ![recording_at_index] = @ + 1]
    /\ status' = [status EXCEPT ![recording_at_index] = On(0)]
    /\ any_recording' = FALSE

\* one turn of the mixing loop of enqueue_loops
MixStep ==
    /\ lpc = "mix"
    /\ mix_i < samples_per_measure
    /\ IF ~MixInBounds(loops, active_loops, mix_i) \/ Len(playback) >= RING_CAPACITY
       THEN \* index out of bounds, or "playback buffer full"
            /\ lpc' = "dead"
            /\ UNCHANGED <<loopVars, mixVars, playback, mixed>>
       ELSE /\ playback' = Append(playback, MixedSample(loops, active_loops, mix_i))
            /\ mixed' = Append(mixed, MixedSample(loops, active_loops, mix_i))
            /\ mix_i' = mix_i + 1
            /\ UNCHANGED <<loops, recording_at_index, active_loops, partial_recording>>
            /\ IF partial_recording /\ mix_i = samples_per_measure \div 2
               THEN IF status[recording_at_index] = RecordEnd
                    THEN FinishStart /\ lpc' = "finish"
                    ELSE lpc' = "dead" /\ UNCHANGED <<lengths, status, any_recording>>
               ELSE UNCHANGED <<lengths, status, any_recording, lpc>>
    /\ UNCHANGED <<playVars, stream, loop_messages, effect_messages, histVars>>
    /\ last_handled' = <<>>
    /\ UNCHANGED <<stop_len, pace, played, calc>>
    /\ UNCHANGED pre_status

\* mutant: the drain drops the samples it pops
FinishStepDropsData ==
    /\ lpc = "finish"
    /\ stream # <<>>
    /\ stream' = Tail(stream)
    /\ LET e == Head(stream)
           index == recording_at_index
       IN CASE e[1] = "Data" ->
                 /\ UNCHANGED loops
                 /\ UNCHANGED lpc
            [] e[1] = "Tick" ->
                 /\ lpc' = IF Len(loops[index]) % samples_per_measure = 0
                           THEN "mix" ELSE "dead"
                 /\ UNCHANGED loops
            [] OTHER ->
                 /\ lpc' = "dead"
                 /\ UNCHANGED loops
    /\ UNCHANGED <<lengths, status, any_recording, recording_at_index, mixVars,
                   playVars, playback, loop_messages, effect_messages, histVars>>
    /\ last_handled' = <<>>
    /\ UNCHANGED <<stop_len, pace, played, calc>>
    /\ UNCHANGED <<mixed, pre_status>>

\* the drain loop of finish_recording_loop, one popped sample
FinishStep ==
    /\ lpc = "finish"
    /\ stream # <<>>
    /\ stream' = Tail(stream)
    /\ LET e == Head(stream)
           index == recording_at_index
       IN CASE e[1] = "Data" ->
                 /\ loops' = [loops EXCEPT ![index] = Append(@, e[2])]
                 /\ UNCHANGED lpc
            [] e[1] = "Tick" ->
                 /\ lpc' = IF Len(loops[index]) % samples_per_measure = 0
                           THEN "mix" ELSE "dead"
                 /\ UNCHANGED loops
            [] OTHER -> \* "things are very broken"
                 /\ lpc' = "dead"
                 /\ UNCHANGED loops
    /\ UNCHANGED <<lengths, status, any_recording, recording_at_index, mixVars,
                   playVars, playback, loop_messages, effect_messages, histVars>>
    /\ last_handled' = <<>>
    /\ UNCHANGED <<stop_len, pace, played, calc>>
    /\ UNCHANGED <<mixed, pre_status>>

incrementNoWrap(st, length) == On(st.x + 1)

\* mutant: the offset wraps one measure late
incrementPastEnd(st, length) == On((st.x + 1) % (length + 1))

\* LoopStatus::increment
increment(st, length) == On((st.x + 1) % length)

\* the statuses after enqueue_loops has incremented every active loop
Incremented(st, act) ==
    [i \in LoopIds |->
        IF \E a \in act : a[2] = i THEN increment(st[i], lengths[i]) ELSE st[i]]

\* increment panics on a status that is not On (and on a zero length)
CanIncrement(st, act) ==
    \A a \in act : st[a[2]].s = "On" /\ lengths[a[2]] > 0

\* the end of enqueue_loops
MixDone ==
    /\ lpc = "mix"
    /\ mix_i = samples_per_measure
    /\ IF CanIncrement(status, active_loops)
       THEN status' = Incremented(status, active_loops) /\ lpc' = "run"
       ELSE lpc' = "dead" /\ UNCHANGED status
    /\ UNCHANGED <<loops, lengths, any_recording, recording_at_index, mixVars,
                   playVars, stream, playback, loop_messages, effect_messages,
                   histVars>>
    /\ last_handled' = IF ~CanIncrement(status, active_loops) THEN <<>>
                       ELSE IF partial_recording
                       THEN <<"PreTick", recording_at_index, "RecordEnd">>
                       ELSE <<"PreTick", -1, "">>
    /\ UNCHANGED <<stop_len, pace, played, calc>>
    /\ UNCHANGED <<mixed, pre_status>>

\* mutant: an Empty loop is armed even while a recording is active
ToggledIgnoringRecording(st, rec) ==
    CASE st.s = "Off" -> On(0)
      [] st.s = "On" -> Off
      [] st.s = "Empty" -> RecordStart
      [] OTHER -> st

\* mutant: toggling a busy loop switches it off
ToggledBusyToOff(st, rec) ==
    CASE st.s = "Off" -> On(0)
      [] st.s = "Empty" -> IF rec THEN st ELSE RecordStart
      [] OTHER -> Off

\* mutant: switching a loop off clears it
ToggledOnToEmpty(st, rec) ==
    CASE st.s = "Off" -> On(0)
      [] st.s = "On" -> Empty
      [] st.s = "Empty" -> IF rec THEN st ELSE RecordStart
      [] OTHER -> st

\* mutant: a loop switched on starts at its second measure
ToggledOnAtOne(st, rec) ==
    CASE st.s = "Off" -> On(1)
      [] st.s = "On" -> Off
      [] st.s = "Empty" -> IF rec THEN st ELSE RecordStart
      [] OTHER -> st

\* check_messages: the status ToggleLoop(index) leaves at index
Toggled(st, rec) ==
    CASE st.s = "Off" -> On(0)
      [] st.s = "On" -> Off
      [] st.s = "Empty" -> IF rec THEN st ELSE RecordStart
      [] OTHER -> st

\* mutant: the recording flag is not consulted
stop_recording_unchecked(st, rec, at) == [st EXCEPT ![at] = RecordEnd]

\* stop_recording
stop_recording(st, rec, at) ==
    IF ~rec THEN st ELSE [st EXCEPT ![at] = RecordEnd]

\* mutant: messages are also checked between two mixed samples
HandleMessageMidMix ==
    /\ lpc \in {"run", "mix"}
    /\ loop_messages # <<>>
    /\ loop_messages' = Tail(loop_messages)
    /\ LET message == Head(loop_messages)
       IN IF message[1] = "ToggleLoop"
          THEN IF message[2] \in LoopIds
               THEN /\ status' = [status EXCEPT ![message[2]] = Toggled(@, any_recording)]
                    /\ lpc' = lpc
               ELSE lpc' = "dead" /\ UNCHANGED status
          ELSE /\ status' = stop_recording(status, any_recording, recording_at_index)
               /\ lpc' = lpc
    /\ UNCHANGED <<loops, lengths, any_recording, recording_at_index, mixVars,
                   playVars, stream, playback, effect_messages, histVars, pace, calc>>
    /\ mixed' = <<>>
    /\ pre_status' = <<>>
    /\ played' = IF Head(loop_messages)[1] = "ToggleLoop"
                     /\ Head(loop_messages)[2] \in LoopIds
                     /\ status[Head(loop_messages)[2]].s \in {"On", "Off"}
                  THEN [played EXCEPT ![Head(loop_messages)[2]] = <<>>]
                  ELSE played
    /\ LET message == Head(loop_messages)
       IN IF message[1] = "ToggleLoop"
          THEN /\ last_handled' = IF message[2] \in LoopIds
                                  THEN <<"ToggleLoop", message[2], status[message[2]].s>>
                                  ELSE <<>>
               /\ UNCHANGED stop_len
          ELSE /\ last_handled' = <<"StopRecording", recording_at_index,
                                     IF any_recording THEN status[recording_at_index].s
                                     ELSE "">>
               /\ stop_len' = IF any_recording /\ status[recording_at_index] = Recording
                              THEN [stop_len EXCEPT ![recording_at_index] =
                                        <<Len(loops[recording_at_index]),
                                          lengths[recording_at_index]>>]
                              ELSE stop_len

\* check_messages: one message handled
HandleMessage ==
    /\ lpc = "run"
    /\ loop_messages # <<>>
    /\ loop_messages' = Tail(loop_messages)
    /\ LET message == Head(loop_messages)
       IN IF message[1] = "ToggleLoop"
          THEN IF message[2] \in LoopIds
               THEN /\ status' = [status EXCEPT ![message[2]] = Toggled(@, any_recording)]
                    /\ lpc' = "run"
               ELSE lpc' = "dead" /\ UNCHANGED status
          ELSE /\ status' = stop_recording(status, any_recording, recording_at_index)
               /\ lpc' = "run"
    /\ UNCHANGED <<loops, lengths, any_recording, recording_at_index, mixVars,
                   playVars, stream, playback, effect_messages, histVars, pace, calc>>
    /\ mixed' = <<>>
    /\ pre_status' = <<>>
    /\ played' = IF Head(loop_messages)[1] = "ToggleLoop"
                     /\ Head(loop_messages)[2] \in LoopIds
                     /\ status[Head(loop_messages)[2]].s \in {"On", "Off"}
                  THEN [played EXCEPT ![Head(loop_messages)[2]] = <<>>]
                  ELSE played
    /\ LET message == Head(loop_messages)
       IN IF message[1] = "ToggleLoop"
          THEN /\ last_handled' = IF message[2] \in LoopIds
                                  THEN <<"ToggleLoop", message[2], status[message[2]].s>>
                                  ELSE <<>>
               /\ UNCHANGED stop_len
          ELSE /\ last_handled' = <<"StopRecording", recording_at_index,
                                     IF any_recording THEN status[recording_at_index].s
                                     ELSE "">>
               /\ stop_len' = IF any_recording /\ status[recording_at_index] = Recording
                              THEN [stop_len EXCEPT ![recording_at_index] =
                                        <<Len(loops[recording_at_index]),
                                          lengths[recording_at_index]>>]
                              ELSE stop_len

(***************************************************************************)
(* The system                                                              *)
(***************************************************************************)
Next ==
    \/ \E input \in Blocks : ProcessBlock(input)
    \/ PlayLoops
    \/ \E data \in MidiEvents : InterfaceRun(data)
    \/ PopData
    \/ PopTick
    \/ PopPreTick
    \/ MixStep
    \/ FinishStep
    \/ MixDone
    \/ HandleMessage

Spec == Init /\ [][Next]_vars

\* the same system with the loop engine keeping pace
SpecPaced == InitPaced /\ [][Next]_vars

\* the audio server keeps invoking the callback, and the loop engine's thread
\* keeps spinning in run()
CallbackFair ==
    /\ WF_vars(\E input \in Blocks : ProcessBlock(input))
    /\ WF_vars(PlayLoops)

LoopEngineFair ==
    /\ WF_vars(PopData)
    /\ WF_vars(PopTick)
    /\ WF_vars(PopPreTick)
    /\ WF_vars(MixStep)
    /\ WF_vars(FinishStep)
    /\ WF_vars(MixDone)
    /\ WF_vars(HandleMessage)

SpecLive == InitLive /\ [][Next]_vars /\ CallbackFair /\ LoopEngineFair

\* the audio path with effect commands arriving and no loop commands
NextEffects ==
    \/ \E m \in EffectMessages : SendEffect(m)
    \/ \E input \in Blocks : ProcessBlock(input)
    \/ PlayLoops
    \/ PopData
    \/ PopTick
    \/ PopPreTick
    \/ MixStep
    \/ MixDone

SpecEffects == InitEffects /\ [][NextEffects]_vars

\* startup on its own: init(bpm) and LoopManager::new for any tempo and
\* any pair of click recordings
InitStartup ==
    /\ Booted
    /\ pace = "startup"
    /\ calc \in {[bpm |-> b, big |-> Click(nb), little |-> Click(nl), done |-> FALSE,
                   spb |-> 0, spm |-> 0, out |-> <<>>] :
                      b \in 1 .. MaxBpm, nb \in 0 .. MaxClick, nl \in 0 .. MaxClick}

Startup ==
    /\ pace = "startup"
    /\ ~calc.done
    /\ \E o \in NewMetronome(calc.big, calc.little, init_samples_per_beat(calc.bpm)) :
           calc' = [calc EXCEPT !.done = TRUE,
                                !.spb = init_samples_per_beat(calc.bpm),
                                !.spm = init_samples_per_measure(calc.bpm),
                                !.out = o]
    /\ UNCHANGED <<loopVars, lpc, mixVars, playVars, stream, playback, loop_messages,
                   effect_messages, histVars, last_handled, stop_len, mixed,
                   pre_status, played, pace>>

SpecStartup == InitStartup /\ [][Startup]_vars

\* the control path on its own: any MIDI event reaches the Interface, and
\* the loop engine handles what the Interface sends
InitMidi ==
    /\ Booted
    /\ pace = "midi"
    /\ calc \in {[data |-> d, done |-> FALSE, alive |-> TRUE] : d \in AnyMidi}

NextMidi ==
    \/ MidiArrives
    \/ HandleMessage

SpecMidi == InitMidi /\ [][NextMidi]_vars

\* the waveshaper on its own: a sample x, in thousandths of full scale, is
\* put through the closure of distortion()
MaxShape == 1100
ShapeInputs == (0 - MaxShape) .. MaxShape

InitShape ==
    /\ Booted
    /\ pace = "shape"
    /\ calc \in {[x |-> x, done |-> FALSE, wet |-> 0] : x \in ShapeInputs}

Shape ==
    /\ pace = "shape"
    /\ ~calc.done
    /\ calc' = [calc EXCEPT !.done = TRUE, !.wet = distortion(<<calc.x>>)[1]]
    /\ UNCHANGED <<loopVars, lpc, mixVars, playVars, stream, playback,
                   loop_messages, effect_messages, histVars, last_handled,
                   stop_len, mixed, pre_status, played, pace>>

SpecShape == InitShape /\ [][Shape]_vars
(***************************************************************************)
(* Properties                                                              *)
(***************************************************************************)
TickPositions == {p \in DOMAIN sent : sent[p] = "Tick"}
CountIn(kind, from, to) == Cardinality({q \in from .. to : sent[q] = kind})
PreviousTick(p) ==
    LET before == {q \in TickPositions : q < p} \cup {0}
    IN CHOOSE q \in before : \A r \in before : r <= q
Busy == {i \in LoopIds : status[i].s \in {"RecordStart", "Recording", "RecordEnd"}}
RecordingActive == \E j \in LoopIds : status[j].s \in {"Recording", "RecordEnd"}
HandlesToggle(i) == HandleMessage /\ Head(loop_messages) = ToggleLoop(i)
HandlesStop == HandleMessage /\ Head(loop_messages) = StopRecording

\* C1: in every reachable state at most one loop of the register is in
\* RecordStart, Recording or RecordEnd.
C1_AtMostOneBusyLoop == Cardinality(Busy) <= 1

\* C2: between loop-engine iterations every loop that is On or Off holds
\* exactly length_measures * samples_per_measure samples, length_measures >= 1.
C2_BufferMatchesLength ==
    lpc = "run" =>
        \A i \in LoopIds :
            status[i].s \in {"On", "Off"} =>
                /\ Len(loops[i]) = lengths[i] * samples_per_measure
                /\ lengths[i] >= 1

\* a recorded loop of two measures is playing, seen between iterations
C2_Witness ==
    /\ lpc = "run"
    /\ \E i \in LoopIds \ {0} : status[i].s = "On" /\ lengths[i] = 2

\* C3: in the pushed event sequence exactly samples_per_measure Data events
\* lie between two consecutive Ticks, and every Tick is immediately followed
\* by the Data of the first sample of its measure.
C3_MeasureBetweenTicks ==
    \A p \in TickPositions :
        /\ PreviousTick(p) > 0 =>
               CountIn("Data", PreviousTick(p), p) = samples_per_measure
        /\ CountIn("Data", 1, p) % samples_per_measure = 0
        /\ IF p < Len(sent) THEN sent[p + 1] = "Data" ELSE ppc = "dead"

\* three Ticks have been pushed
C3_Witness == Cardinality(TickPositions) = 3

\* C4: for a block size below samples_per_measure there is exactly one
\* PreTick before the first Tick and between every two consecutive Ticks, and
\* exactly BUFFER_SIZE Data events lie between a PreTick and the next Tick.
C4_OnePreTickPerMeasure ==
    BUFFER_SIZE < samples_per_measure =>
        \A p \in TickPositions :
            LET pre == {q \in PreviousTick(p) + 1 .. p : sent[q] = "PreTick"}
            IN /\ Cardinality(pre) = 1
               /\ \A q \in pre : CountIn("Data", q, p) = BUFFER_SIZE

\* two measures are closed and the third measure's PreTick is out
C4_Witness ==
    /\ Cardinality(TickPositions) = 2
    /\ CountIn("PreTick", 1, Len(sent)) = 3

\* C5 as stated: after every block the number of Ticks pushed is
\* floor(total samples / samples_per_measure), exact multiples included.
C5_TicksAreFloor ==
    ppc # "dead" => Cardinality(TickPositions) = fed \div samples_per_measure

\* C5 amended: after every block the number of Ticks pushed is
\* floor((total - 1) / samples_per_measure) for total >= 1: the Tick that
\* closes a measure is pushed with the first sample of the next one.
C5_TicksLagOneSample ==
    ppc # "dead" =>
        /\ Cardinality(TickPositions) =
               IF fed = 0 THEN 0 ELSE (fed - 1) \div samples_per_measure
        /\ Cardinality(TickPositions) * samples_per_measure + sample_counter = fed

\* exactly two measures have been fed and one Tick is out
C5_Witness ==
    /\ ppc # "dead"
    /\ fed = 2 * samples_per_measure
    /\ Cardinality(TickPositions) = 1

\* C6: a loop armed from Empty whose StopRecording is handled when exactly
\* samples_per_measure samples of its first measure have been recorded has,
\* once the next PreTick is handled, length_measures 1, a buffer of exactly
\* that measure's samples, and status On(0).
C6_OneMeasureRecorded ==
    \A i \in LoopIds :
        (stop_len[i] = <<samples_per_measure, 0>>
            /\ last_handled = <<"PreTick", i, "RecordEnd">>) =>
            /\ lengths[i] = 1
            /\ Len(loops[i]) = samples_per_measure
            /\ \A j \in 1 .. Len(loops[i]) : loops[i][j] = loops[i][1] + InputAt(j - 1)
            /\ status[i] = On(0)

\* the same scenario with StopRecording handled before the measure's PreTick
\* is popped: the loop comes out one measure long
C6_StoppedBeforePreTick ==
    \A i \in LoopIds :
        (stop_len[i] # <<>> /\ stop_len[i][2] = 0
            /\ stop_len[i][1] < samples_per_measure - BUFFER_SIZE
            /\ last_handled = <<"PreTick", i, "RecordEnd">>) =>
            /\ lengths[i] = 1
            /\ Len(loops[i]) = samples_per_measure
            /\ \A j \in 1 .. Len(loops[i]) : loops[i][j] = loops[i][1] + InputAt(j - 1)
            /\ status[i] = On(0)

\* C7: ToggleLoop on an Empty loop arms it (RecordStart) only if no loop is
\* recording; while a loop is recording the command changes no status,
\* length, buffer, or the recording flag and index.
C7_ToggleEmpty ==
    [][\A i \in LoopIds :
          (HandlesToggle(i) /\ status[i] = Empty) =>
              /\ UNCHANGED <<loops, lengths, any_recording, recording_at_index>>
              /\ IF RecordingActive
                 THEN UNCHANGED status
                 ELSE status' = [status EXCEPT ![i] = RecordStart]]_vars

\* a ToggleLoop for an Empty loop was ignored during a recording
C7_Witness ==
    \E i \in LoopIds :
        /\ last_handled = <<"ToggleLoop", i, "Empty">>
        /\ RecordingActive
        /\ status[i] = Empty

\* C8: ToggleLoop on a loop that is Recording, RecordStart or RecordEnd
\* leaves the whole engine state unchanged.
C8_ToggleBusyIgnored ==
    [][\A i \in LoopIds :
          (HandlesToggle(i) /\ i \in Busy) =>
              UNCHANGED <<loopVars, mixVars, lpc, stream, playback>>]_vars

\* a ToggleLoop was handled for the loop being recorded
C8_Witness ==
    \E i \in LoopIds :
        /\ last_handled = <<"ToggleLoop", i, "Recording">>
        /\ status[i] = Recording
        /\ loops[i] # <<>>

\* C9: ToggleLoop turns an Off loop On(0) and an On loop Off, leaving the
\* buffers, the lengths, every other status and the recording flag and index
\* unchanged.
C9_ToggleOnOff ==
    [][\A i \in LoopIds :
          (HandlesToggle(i) /\ status[i].s \in {"On", "Off"}) =>
              /\ status' = [status EXCEPT
                               ![i] = IF status[i].s = "Off" THEN On(0) ELSE Off]
              /\ UNCHANGED <<loops, lengths, any_recording, recording_at_index>>]_vars

\* a recorded loop that was playing has been switched off
C9_Witness ==
    \E i \in LoopIds \ {0} :
        /\ last_handled = <<"ToggleLoop", i, "On">>
        /\ status[i] = Off
        /\ lengths[i] >= 1

\* C10: StopRecording moves the Recording loop to RecordEnd and changes
\* nothing else; with no loop Recording it changes nothing, and the engine
\* keeps running either way.
C10_StopRecording ==
    [][HandlesStop =>
          /\ \/ \E j \in LoopIds : /\ status[j] = Recording
                                   /\ status' = [status EXCEPT ![j] = RecordEnd]
             \/ /\ \A j \in LoopIds : status[j] # Recording
                /\ UNCHANGED status
          /\ UNCHANGED <<loops, lengths, any_recording, recording_at_index,
                         mixVars, stream, playback>>
          /\ lpc' = "run"]_vars

\* StopRecording was handled for the Recording loop, now RecordEnd
C10_Witness ==
    \E j \in LoopIds \ {0} :
        /\ last_handled = <<"StopRecording", j, "Recording">>
        /\ status[j] = RecordEnd

\* StopRecording was handled while a loop was only armed, and changed nothing
C10_ArmedOnly ==
    /\ last_handled = <<"StopRecording", 0, "">>
    /\ \E j \in LoopIds : status[j] = RecordStart

\* C11: on a Tick, a Recording loop's length_measures grows by exactly 1 and
\* nothing else changes; otherwise, if some loop is in RecordStart, exactly
\* one such loop becomes Recording and the sole recording index, its length
\* unchanged; statuses On, Off and Empty and the mixed-audio channel are
\* untouched.
C11_TickUpdatesRegister ==
    [][PopTick =>
          /\ playback' = playback
          /\ \A i \in LoopIds :
                 status[i].s \in {"On", "Off", "Empty"} => status'[i] = status[i]
          /\ IF \E j \in LoopIds : status[j] = Recording
             THEN \E j \in LoopIds :
                      /\ status[j] = Recording
                      /\ lengths' = [lengths EXCEPT ![j] = @ + 1]
                      /\ UNCHANGED <<status, loops, any_recording, recording_at_index>>
             ELSE IF \E j \in LoopIds : status[j] = RecordStart
             THEN \E j \in LoopIds :
                      /\ status[j] = RecordStart
                      /\ status' = [status EXCEPT ![j] = Recording]
                      /\ any_recording'
                      /\ recording_at_index' = j
                      /\ UNCHANGED <<lengths, loops>>
             ELSE TRUE]_vars

\* C12: whenever the loop engine dispatches a Tick while some loop has
\* status RecordEnd, the engine stops fatally.
C12_TickWithRecordEndIsFatal ==
    [][(PopTick /\ \E i \in LoopIds : status[i] = RecordEnd) => lpc' = "dead"]_vars

\* a loop in RecordEnd is always the loop the recording flag and index
\* name, so update_recording_status never reaches its scan of the statuses
C12_RecordEndKeepsFlag ==
    \A i \in LoopIds :
        status[i] = RecordEnd => (any_recording /\ recording_at_index = i)

DispatchesData == PopData
DataValue == Head(stream)[2]

\* C13 as stated: a Data event dispatched by the loop engine is appended to
\* a loop's buffer if and only if that loop's status is Recording; with any
\* other status (RecordStart and RecordEnd included) no buffer changes, and
\* no other state changes either way.
C13_AppendIffRecording ==
    [][DispatchesData =>
          /\ \A i \in LoopIds :
                 loops'[i] = IF status[i] = Recording
                             THEN Append(loops[i], DataValue)
                             ELSE loops[i]
          /\ UNCHANGED <<lengths, status, any_recording, recording_at_index,
                         mixVars, lpc, playback>>]_vars

\* C13 amended: a Data event dispatched by the run loop is appended to a
\* loop's buffer if and only if that loop's status is Recording or
\* RecordEnd; with any other statuses no buffer changes, and no other state
\* changes either way.
C13_AppendIffRecordingOrEnding ==
    [][DispatchesData =>
          /\ \A i \in LoopIds :
                 loops'[i] = IF status[i] \in {Recording, RecordEnd}
                             THEN Append(loops[i], DataValue)
                             ELSE loops[i]
          /\ UNCHANGED <<lengths, status, any_recording, recording_at_index,
                         mixVars, lpc, playback>>]_vars

\* a loop still in RecordEnd has grown since its StopRecording was handled
C13_Witness ==
    \E i \in LoopIds :
        /\ lpc = "run"
        /\ status[i] = RecordEnd
        /\ stop_len[i] # <<>>
        /\ Len(loops[i]) > stop_len[i][1]

\* the loop engine has just completed enqueue_loops
PreTickHandled == last_handled # <<>> /\ last_handled[1] = "PreTick"
\* the loops that were On or RecordEnd when the PreTick was popped
WasActive == {i \in LoopIds : pre_status[i].s \in {"On", "RecordEnd"}}

\* C14: handling one PreTick pushes exactly samples_per_measure values to the
\* mixed-audio channel, and the value at position p is the sum, over every
\* loop that was On(offset) (RecordEnd: offset 0) when the PreTick was
\* popped, of that loop's sample at index offset * samples_per_measure + p;
\* with no loop active all the values are 0.
C14_MixedMeasure ==
    PreTickHandled =>
        /\ Len(mixed) = samples_per_measure
        /\ \A p \in 0 .. (samples_per_measure - 1) :
               mixed[p + 1] =
                   SumOver(WasActive,
                           [i \in WasActive |->
                               loops[i][pre_status[i].x * samples_per_measure + p + 1]])

\* the second measure of a recorded loop has been mixed with the metronome
C14_Witness ==
    /\ PreTickHandled
    /\ pre_status[0] = On(0)
    /\ \E i \in LoopIds \ {0} : pre_status[i] = On(1)

\* a measure was mixed with no loop active: silence
C14_Silence ==
    /\ PreTickHandled
    /\ WasActive = {}
    /\ mixed = Zeros(samples_per_measure)

\* C15: after a PreTick is fully handled every loop that was On(offset) is
\* On((offset + 1) mod length_measures), a loop that was RecordEnd is
\* On(1 mod length_measures) with its final length, and no inactive loop's
\* status has changed.
C15_OffsetsAdvance ==
    PreTickHandled =>
        \A i \in LoopIds :
            CASE pre_status[i].s = "On" ->
                     status[i] = On((pre_status[i].x + 1) % lengths[i])
              [] pre_status[i].s = "RecordEnd" ->
                     status[i] = On(1 % lengths[i])
              [] OTHER -> status[i] = pre_status[i]

\* a two-measure loop has wrapped from its second measure to its first
C15_Witness ==
    /\ PreTickHandled
    /\ \E i \in LoopIds \ {0} :
           pre_status[i] = On(1) /\ lengths[i] = 2 /\ status[i] = On(0)

\* a finished two-measure recording comes out of its PreTick at On(1)
C15_FinishedRecording ==
    /\ PreTickHandled
    /\ \E i \in LoopIds \ {0} :
           pre_status[i] = RecordEnd /\ lengths[i] = 2 /\ status[i] = On(1)

\* the position of the mixing loop at which finish_recording_loop is called
FinishPosition == samples_per_measure \div 2
\* enqueue_loops is running for a PreTick popped with loop r in RecordEnd
Finishing(r) == lpc \in {"mix", "finish"} /\ pre_status[r] = RecordEnd

\* where a PreTick popped with loop r in RecordEnd stands: before the call
\* of finish_recording_loop, inside its drain loop, or after its return
FinishPhase(r) ==
    CASE lpc = "mix" /\ mix_i <= FinishPosition ->
             status[r] = RecordEnd /\ any_recording /\ recording_at_index = r
      [] lpc = "finish" ->
             /\ mix_i = FinishPosition + 1
             /\ status[r] = On(0)
             /\ ~any_recording
             /\ recording_at_index = r
      [] OTHER ->
             /\ status[r] = On(0)
             /\ ~any_recording
             /\ Len(loops[r]) = lengths[r] * samples_per_measure

\* C16: when a PreTick is handled while a loop is RecordEnd,
\* finish_recording_loop runs once, at mix position samples_per_measure / 2;
\* it appends every Data up to the next Tick to that loop, consumes that
\* Tick, and on its return the loop is On(0), no recording is active and the
\* buffer holds length_measures * samples_per_measure samples.
C16_FinishRecording ==
    [][/\ \A r \in LoopIds : Finishing(r)' => FinishPhase(r)'
       /\ (lpc = "mix" /\ lpc' = "finish") =>
              /\ mix_i = FinishPosition
              /\ pre_status[recording_at_index] = RecordEnd
              /\ lengths' = [lengths EXCEPT ![recording_at_index] = @ + 1]
       /\ (FinishStep /\ lpc' # "dead") =>
              /\ stream' = Tail(stream)
              /\ IF Head(stream) = Tick
                 THEN lpc' = "mix" /\ UNCHANGED <<loops, lengths, status>>
                 ELSE /\ Head(stream)[1] = "Data"
                      /\ lpc' = "finish"
                      /\ loops' = [loops EXCEPT ![recording_at_index] =
                                       Append(@, Head(stream)[2])]
                      /\ UNCHANGED <<lengths, status>>
       /\ (PopPreTick /\ \E r \in LoopIds : status[r] = RecordEnd) =>
              (lpc' = "mix" /\ mix_i' = 0)]_vars

\* finish_recording_loop has returned from draining the rest of the measure
C16_Witness ==
    \E r \in LoopIds \ {0} :
        /\ lpc = "mix"
        /\ pre_status[r] = RecordEnd
        /\ mix_i = FinishPosition + 1
        /\ status[r] = On(0)
        /\ Len(loops[r]) = 2 * samples_per_measure

\* C17: a recorded loop of k measures, left alone, is mixed at the measure
\* offsets 0, 1, ..., k-1, 0, 1, ... at successive PreTicks, out of a buffer
\* that no longer changes, so every cycle replays the same k measures; a
\* ToggleLoop On -> Off -> On makes it resume from measure 0.
C17_ReplayCycle ==
    \A i \in LoopIds :
        (lpc = "run" /\ status[i].s = "On") =>
            /\ \A n \in DOMAIN played[i] : played[i][n] = (n - 1) % lengths[i]
            /\ status[i].x = Len(played[i]) % lengths[i]
            /\ Len(loops[i]) = lengths[i] * samples_per_measure

\* the steps behind C17: the buffer and length of an On or Off loop do not
\* change, and switching an Off loop on restarts its cycle at measure 0
C17_FixedBufferAndRestart ==
    [][/\ \A i \in LoopIds :
              (status[i].s \in {"On", "Off"} /\ lpc # "finish") =>
                  (loops'[i] = loops[i] /\ lengths'[i] = lengths[i])
       /\ \A i \in LoopIds :
              (HandlesToggle(i) /\ status[i] = Off) =>
                  (status'[i] = On(0) /\ played'[i] = <<>>)]_vars

\* a two-measure loop has been mixed at offsets 0, 1 and 0 again
C17_Witness ==
    \E i \in LoopIds \ {0} :
        /\ lpc = "run"
        /\ lengths[i] = 2
        /\ played[i] = <<0, 1, 0>>
        /\ status[i] = On(1)

\* a two-measure loop that was switched off has just been switched on again
C17_Resumed ==
    \E i \in LoopIds \ {0} :
        /\ last_handled = <<"ToggleLoop", i, "Off">>
        /\ lengths[i] = 2
        /\ status[i] = On(0)
        /\ played[i] = <<>>

\* C18 as stated: loop 0, the metronome, has status On(0) in every reachable
\* state, whatever commands arrive, ToggleLoop(0) included.
C18_MetronomeAlwaysOn == status[0] = On(0)

\* C18 amended: loop 0 is On(0) or Off in every reachable state; its status
\* changes only when a ToggleLoop(0) is handled, which switches it Off and
\* back to On(0); its buffer stays the one metronome measure, its length 1.
C18_MetronomeOnOrOff ==
    [][/\ status'[0] \in {On(0), Off}
       /\ loops'[0] = InitLoops[0]
       /\ lengths'[0] = 1
       /\ status'[0] # status[0] => HandlesToggle(0)
       /\ HandlesToggle(0) => status'[0] = IF status[0] = Off THEN On(0) ELSE Off]_vars

\* past the first measure, the metronome that was switched off has just
\* been switched on again
C18_Witness ==
    /\ last_handled = <<"ToggleLoop", 0, "Off">>
    /\ status[0] = On(0)
    /\ played[0] = <<>>
    /\ fed > samples_per_measure

\* C19: when the loop engine keeps pace (it empties the sample stream
\* between any two process calls) and BUFFER_SIZE <= samples_per_measure / 4,
\* no process call finds fewer than BUFFER_SIZE samples in the mixed-audio
\* channel and no push to either ring buffer fails, finish-recording steps
\* included.
C19_NoUnderrunNoOverflow ==
    (pace = "paced" /\ BUFFER_SIZE <= samples_per_measure \div 4) =>
        /\ ppc # "dead"
        /\ lpc # "dead"
        /\ ppc = "play" => Len(playback) >= BUFFER_SIZE
        /\ Len(stream) <= RING_CAPACITY
        /\ Len(playback) <= RING_CAPACITY
        /\ (lpc = "mix" /\ mix_i < samples_per_measure) => Len(playback) < RING_CAPACITY

\* a process call has run to its end while finish_recording_loop was
\* waiting for the Tick, which now heads the stream
C19_Witness ==
    /\ pace = "paced"
    /\ lpc = "finish"
    /\ ppc = "idle"
    /\ stream # <<>>
    /\ Head(stream) = Tick
    /\ output[BUFFER_SIZE] # InputAt(fed)

\* without the pacing the callback can outrun the loop engine
C19_Unpaced == pace = "free" => ppc # "dead"

\* the events a step has pushed to the sample stream
Pushed == SubSeq(sent', Len(sent) + 1, Len(sent'))
\* the Data values among the events a step has appended to the stream
PushedData ==
    LET new == SubSeq(stream', Len(stream) + 1, Len(stream'))
    IN SelectSeq(new, LAMBDA e : e[1] = "Data")

CallbackStep == PlayLoops \/ \E input \in Blocks : ProcessBlock(input)

C21_StreamFull ==
    /\ ppc = "dead"
    /\ Len(sent) > RING_CAPACITY
    /\ fed < Horizon
    /\ playback # <<>>

\* the measures loop i had completed when its StopRecording was handled
MeasuresAtStop(i) == stop_len[i][2]

\* C22: when StopRecording is handled while a loop is Recording during
\* measure m, the recording ends at the Tick that closes measure m: the
\* final buffer holds the Data up to that Tick and none after it, whether
\* the command is handled before or after measure m's PreTick.
C22_StopsAtEndOfMeasure ==
    \A i \in LoopIds :
        (stop_len[i] # <<>> /\ last_handled = <<"PreTick", i, "RecordEnd">>) =>
            /\ lengths[i] = MeasuresAtStop(i) + 1
            /\ Len(loops[i]) = (MeasuresAtStop(i) + 1) * samples_per_measure

\* the case the code handles: StopRecording handled before the PreTick of
\* measure m is popped
C22_StoppedBeforePreTick ==
    \A i \in LoopIds :
        (stop_len[i] # <<>>
            /\ stop_len[i][1] < (MeasuresAtStop(i) + 1) * samples_per_measure - BUFFER_SIZE
            /\ last_handled = <<"PreTick", i, "RecordEnd">>) =>
            /\ lengths[i] = MeasuresAtStop(i) + 1
            /\ Len(loops[i]) = (MeasuresAtStop(i) + 1) * samples_per_measure

\* C23: every loop put into RecordStart becomes Recording at the very next
\* Tick after its ToggleLoop was handled, so that it captures from the first
\* Data of the next measure on.
C23_ArmedStartsAtNextTick ==
    [][PopTick =>
          \A i \in LoopIds :
              status[i] = RecordStart =>
                  /\ status'[i] = Recording
                  /\ any_recording' /\ recording_at_index' = i
                  /\ loops'[i] = <<>>]_vars

\* the same with a single loop armed: the Tick starts its recording
C23_SingleArmedStarts ==
    [][(PopTick /\ Cardinality(Busy) <= 1) =>
          \A i \in LoopIds :
              status[i] = RecordStart =>
                  /\ status'[i] = Recording
                  /\ any_recording' /\ recording_at_index' = i
                  /\ loops'[i] = <<>>]_vars

\* the clock markers the loop engine has popped so far
PoppedMarkers ==
    SelectSeq(SubSeq(sent, 1, Len(sent) - Len(stream)), LAMBDA k : k # "Data")
\* the loop engine is in the last block of a measure: it has handled the
\* measure's PreTick, so the next measure is mixed, and not yet its Tick
NextMeasureMixed ==
    /\ lpc = "run"
    /\ PoppedMarkers # <<>>
    /\ PoppedMarkers[Len(PoppedMarkers)] = "PreTick"
\* loop i was part of every mix since it was last switched
InLastMix(i) == played[i] # <<>>

\* C24: when ToggleLoop turns an On loop Off while measure m is playing, the
\* loop stops at the next measure boundary: it contributes to no mixed
\* sample of measure m+1 or of any later measure until it is toggled on.
C24_OffAtNextMeasure ==
    [][/\ \A i \in LoopIds :
              (HandlesToggle(i) /\ status[i].s = "On") =>
                  ~(NextMeasureMixed /\ InLastMix(i))
       /\ PopPreTick =>
              \A i \in LoopIds : status[i] = Off => \A a \in active_loops' : a[2] # i]_vars

\* what the code does: a loop that is Off when a PreTick is popped is left
\* out of that mix
C24_OffLoopsNotMixed ==
    [][PopPreTick =>
          \A i \in LoopIds : status[i] = Off => \A a \in active_loops' : a[2] # i]_vars

\* the Data events after the last Tick of an event history
DataSinceTick(h) ==
    LET ticks == {q \in DOMAIN h : h[q] = "Tick"} \cup {0}
        last == CHOOSE q \in ticks : \A r \in ticks : r <= q
    IN Cardinality({q \in (last + 1) .. Len(h) : h[q] = "Data"})

\* send_stream after the first n samples of the next block, with room in
\* the stream
AfterSamples(n) ==
    LET block == CHOOSE b \in Blocks : TRUE
    IN send_stream([c |-> sample_counter, q |-> <<>>, h |-> sent, ok |-> TRUE],
                   SubSeq(block, 1, n))

\* C25 as stated: sample_counter, seen before and after every process call
\* and between samples, is within [0, samples_per_measure) and equals the
\* number of Data events pushed since the last Tick.
C25_CounterBelowMeasure ==
    ppc # "dead" =>
        \A n \in 0 .. BUFFER_SIZE :
            /\ AfterSamples(n).c \in 0 .. (samples_per_measure - 1)
            /\ AfterSamples(n).c = DataSinceTick(AfterSamples(n).h)

\* C25 amended: sample_counter is within [0, samples_per_measure], equals
\* the number of Data events pushed since the last Tick, and is
\* samples_per_measure exactly when a measure is complete and its Tick is
\* not pushed yet; it is 0 only before the first sample.
C25_CounterUpToMeasure ==
    ppc # "dead" =>
        \A n \in 0 .. BUFFER_SIZE :
            LET st == AfterSamples(n)
            IN /\ st.c \in 0 .. samples_per_measure
               /\ st.c = DataSinceTick(st.h)
               /\ st.c = 0 <=> fed + n = 0
               /\ st.c = samples_per_measure <=>
                      (fed + n > 0 /\ (fed + n) % samples_per_measure = 0)

\* the second measure is complete, its Tick not yet pushed
C25_Witness ==
    /\ ppc # "dead"
    /\ fed = 2 * samples_per_measure
    /\ sample_counter = samples_per_measure
    /\ Cardinality(TickPositions) = 1
    /\ stream = <<>>

\* a process call consumes the effect command at the head of the channel
ConsumesEffect(m) ==
    /\ \E input \in Blocks : ProcessBlock(input)
    /\ effect_messages # <<>>
    /\ Head(effect_messages) = m

\* C26: each effect command consumed by a process call flips exactly its own
\* flag and leaves the other flag, the sample counter and the protocol on
\* the sample channels as they would be without it; two consecutive toggles
\* of one effect restore its flag; both flags start false.
C26_EffectToggles ==
    /\ ~compress /\ ~distort
    /\ [][/\ ConsumesEffect("ToggleCompression") =>
                 (compress' = ~compress /\ distort' = distort)
          /\ ConsumesEffect("ToggleDistortion") =>
                 (distort' = ~distort /\ compress' = compress)
          /\ \A input \in Blocks :
                 ProcessBlock(input) =>
                     LET plain == send_stream([c |-> sample_counter, q |-> stream,
                                               h |-> sent, ok |-> TRUE], input)
                     IN /\ sample_counter' = plain.c
                        /\ sent' = plain.h
                        /\ Len(stream') = Len(plain.q)
                        /\ effect_messages' =
                               IF effect_messages = <<>> THEN <<>>
                               ELSE Tail(effect_messages)
                        /\ effect_messages = <<>> => UNCHANGED <<compress, distort>>
          /\ ~(\E input \in Blocks : ProcessBlock(input)) =>
                 UNCHANGED <<compress, distort>>]_vars

\* two commands have been consumed and both flags are false again: the
\* same effect was toggled twice
C26_Witness ==
    /\ cmds = 2
    /\ effect_messages = <<>>
    /\ ~compress /\ ~distort
    /\ ppc = "idle"
    /\ fed = 2 * BUFFER_SIZE

\* both effects are on
C26_BothOn == compress /\ distort /\ effect_messages = <<>>

\* C27: for every bpm >= 1, samples_per_measure is
\* (SAMPLES_PER_MINUTE / bpm) * 4 in integer division; with both click
\* arrays no longer than samples_per_beat the synthesized metronome has
\* exactly samples_per_measure samples; a click array that makes the
\* assembled length differ is a fatal startup failure.
C27_MetronomeMeasure ==
    (pace = "startup" /\ calc.done) =>
        /\ calc.spm = (SAMPLES_PER_MINUTE \div calc.bpm) * 4
        /\ (Len(calc.big) <= calc.spb /\ Len(calc.little) <= calc.spb) =>
               /\ calc.out.ok
               /\ Len(calc.out.metronome) = calc.spm
               /\ SubSeq(calc.out.metronome, 1, Len(calc.big)) = calc.big
        /\ calc.out.ok => Len(calc.out.metronome) = calc.spm
        /\ (Len(calc.big) > calc.spb \/ Len(calc.little) > calc.spb) => ~calc.out.ok

\* a tempo that does not divide the minute, with clicks that fit the beat
C27_Witness ==
    /\ pace = "startup" /\ calc.done
    /\ calc.bpm = 5
    /\ calc.spb = 2
    /\ Len(calc.big) = 2 /\ Len(calc.little) = 1
    /\ calc.out.ok
    /\ Len(calc.out.metronome) = 8

\* a loud click longer than a beat fails the sanity check
C27_LoudClickTooLong ==
    /\ pace = "startup" /\ calc.done
    /\ Len(calc.big) > calc.spb /\ Len(calc.little) <= calc.spb
    /\ calc.out.why = "assert_eq"

\* the loop indices of the ToggleLoop messages waiting in the channel
SentIndices == {loop_messages[k][2] : k \in {q \in DOMAIN loop_messages :
                                                loop_messages[q][1] = "ToggleLoop"}}

\* C28: for every MIDI event the Interface can receive, every
\* ToggleLoop(index) it sends has 0 <= index < NUM_LOOPS, so that the loop
\* engine never indexes its status array out of range; a note-on with a key
\* below LOOP_BASE_KEY produces no out-of-range or wrapped index.
C28_IndicesInRange ==
    /\ \A index \in SentIndices : 0 <= index /\ index < NUM_LOOPS
    /\ lpc # "dead"

\* keys from LOOP_BASE_KEY up are mapped into the register or dropped
C28_KeysFromBaseInRange ==
    (pace = "midi" /\ calc.data[2] >= LOOP_BASE_KEY) =>
        /\ \A index \in SentIndices : 0 <= index /\ index < NUM_LOOPS
        /\ lpc # "dead"
        /\ calc.alive


\* the Data values waiting in the sample stream, in order
StreamData ==
    LET ds == SelectSeq(stream, LAMBDA e : e[1] = "Data")
    IN [j \in DOMAIN ds |-> ds[j][2]]
\* how many Data events have been pushed so far
DataCount == Len(SelectSeq(sent, LAMBDA k : k = "Data"))
\* the input samples n+1 .. n+m, the effects being off
InputRun(n, m) == [j \in 1 .. m |-> InputAt(n + j)]

\* C29: the Data values pushed for a block are exactly that block's
\* effect-processed input samples, in order, taken before any loop audio is
\* added to the output: the stream carries the input samples one by one
\* without gap or addition, and a recorded loop's buffer is a run of
\* consecutive input samples, never holding a sample of the metronome or of
\* another loop's playback.
C29_RecordsDryInput ==
    /\ DataCount <= fed
    /\ ppc # "dead" => DataCount = fed
    /\ StreamData = InputRun(DataCount - Len(StreamData), Len(StreamData))
    /\ \A i \in LoopIds \ {0} :
           loops[i] # <<>> =>
               \E n \in 0 .. fed - Len(loops[i]) :
                   loops[i] = InputRun(n, Len(loops[i]))

\* a loop has been recorded and closed while the metronome was sounding, and
\* the callback has put out input plus loop audio since
C29_Witness ==
    \E i \in LoopIds \ {0} :
        /\ status[i].s = "On"
        /\ Len(loops[i]) >= samples_per_measure
        /\ status[0].s = "On"
        /\ played[0] # <<>>
        /\ ppc = "idle"
        /\ output[BUFFER_SIZE] # InputAt(fed)


\* with effects switched on the Data pushed is the processed block, not the
\* raw input and not the output after the loop audio is added
C29_DataIsProcessedBlock ==
    [][\A input \in Blocks :
           (ProcessBlock(input) /\ ppc' = "play") =>
               StreamData' = StreamData \o Effects(input, compress', distort')]_vars


\* the Interface has handled a note-on for the given key
NoteOnHandled(key) ==
    /\ pace = "midi"
    /\ calc.done
    /\ calc.data[1] = MIDI_NOTE_DOWN
    /\ calc.data[2] = key

\* C30: the Interface sends effect messages to the PlaybackManager: a
\* note-on for DISTORTION_KEY causes ToggleDistortion to be sent and one for
\* COMPRESSION_KEY causes ToggleCompression to be sent.
C30_EffectKeysSendToggles ==
    /\ NoteOnHandled(DISTORTION_KEY) => effect_messages = <<"ToggleDistortion">>
    /\ NoteOnHandled(COMPRESSION_KEY) => effect_messages = <<"ToggleCompression">>

\* no MIDI event makes the Interface send an effect message
C30_NoEffectMessageSent == pace = "midi" => effect_messages = <<>>


\* a sample has been through the waveshaper
Shaped == pace = "shape" /\ calc.done

\* C31: the waveshaper lookup is sign-mirrored with clamping: with
\* k = trunc(1000*x) the wet value is table[k] for 0 <= k < 1000,
\* -table[-k] for -1000 < k < 0, +table[999] for every k >= 1000 (k = 1000
\* included) and -table[999] for every k <= -1000; the wet value never has
\* the opposite sign to the input.
C31_SignMirroredClamped ==
    Shaped =>
        LET k == calc.x
        IN /\ (0 <= k /\ k < 1000) => calc.wet = table(k)
           /\ (-1000 < k /\ k < 0) => calc.wet = 0 - table(0 - k)
           /\ k >= 1000 => calc.wet = table(999)
           /\ k <= -1000 => calc.wet = 0 - table(999)
           /\ k > 0 => calc.wet >= 0
           /\ k < 0 => calc.wet <= 0

\* the lookup is as described for every sample but k = 1000
C31_MirroredExceptAtOne ==
    (Shaped /\ calc.x # 1000) =>
        LET k == calc.x
        IN /\ (0 <= k /\ k < 1000) => calc.wet = table(k)
           /\ (-1000 < k /\ k < 0) => calc.wet = 0 - table(0 - k)
           /\ k > 1000 => calc.wet = table(999)
           /\ k <= -1000 => calc.wet = 0 - table(999)
           /\ k > 0 => calc.wet >= 0
           /\ k < 0 => calc.wet <= 0


\* the loops that are being recorded or closed
Capturing == {i \in LoopIds : status[i] \in {Recording, RecordEnd}}

\* C32: the recording flag and index are a faithful cache of the statuses:
\* any_recording is true if and only if status[recording_at_index] is
\* Recording or RecordEnd, no loop other than recording_at_index is
\* Recording or RecordEnd, and at most one loop is in {Recording, RecordEnd}.
C32_FlagCachesStatus ==
    /\ any_recording <=> recording_at_index \in Capturing
    /\ Capturing \subseteq {recording_at_index}
    /\ Cardinality(Capturing) <= 1

\* a loop is being closed while another one is armed
C32_Witness ==
    /\ any_recording
    /\ status[recording_at_index] = RecordEnd
    /\ \E i \in LoopIds : status[i] = RecordStart
    /\ lpc = "run"

\* a second recording has been made: the flag is clear and the index still
\* names the loop recorded last
C32_WitnessCleared ==
    /\ ~any_recording
    /\ recording_at_index # 0
    /\ status[recording_at_index].s = "On"


\* the loop engine is about to push a mixed sample
AboutToPush == lpc = "mix" /\ mix_i < samples_per_measure

\* C33: under every interleaving of the two engines and every command
\* sequence, with BUFFER_SIZE <= samples_per_measure/2, the mixed-audio
\* channel never holds more than its capacity of 2*samples_per_measure
\* samples, and the loop engine's push always finds room.
C33_PlaybackNeverFull ==
    /\ BUFFER_SIZE <= samples_per_measure \div 2
    /\ Len(playback) <= 2 * samples_per_measure
    /\ AboutToPush => Len(playback) < RING_CAPACITY

\* in a later measure, after commands, the loop engine has pushed a whole
\* measure while the channel still held a block: a measure and a block, the
\* most the channel ever holds
C33_Witness ==
    /\ Len(playback) = samples_per_measure + BUFFER_SIZE
    /\ fed > 2 * samples_per_measure
    /\ cmds > 0
    /\ lpc = "run"

\* the loop engine lags by a full sample stream
C33_Lagging == Len(stream) = RING_CAPACITY /\ lpc = "run" /\ ppc # "dead"

\* the channel never holds more than a measure and a block
C33_AtMostMeasureAndBlock == Len(playback) <= samples_per_measure + BUFFER_SIZE


\* C34: mixing never reads past the end of a loop buffer: every On(x) loop
\* has x < length_measures, every read of the mixing loop is inside its
\* buffer, and a RecordEnd loop mixed at a PreTick holds more than
\* samples_per_measure/2 samples before position samples_per_measure/2 is
\* read and a full measure before any later position is read
\* (BUFFER_SIZE < samples_per_measure/2).
C34_ReadsInsideBuffers ==
    /\ BUFFER_SIZE < samples_per_measure \div 2
    /\ \A i \in LoopIds : status[i].s = "On" => status[i].x < lengths[i]
    /\ AboutToPush => MixInBounds(loops, active_loops, mix_i)
    /\ (AboutToPush /\ partial_recording) =>
           LET held == Len(loops[recording_at_index])
           IN /\ mix_i <= samples_per_measure \div 2 =>
                     held > samples_per_measure \div 2
              /\ mix_i > samples_per_measure \div 2 =>
                     held >= samples_per_measure

\* a loop stopped in its first measure is read beyond the middle once its
\* last block has been drained, together with another loop
C34_Witness ==
    /\ AboutToPush
    /\ partial_recording
    /\ mix_i > samples_per_measure \div 2
    /\ Len(loops[recording_at_index]) = samples_per_measure
    /\ \E a \in active_loops : a[2] # recording_at_index

\* the first half of a RecordEnd loop is read while its last block is
\* still on its way
C34_FirstHalf ==
    /\ AboutToPush
    /\ partial_recording
    /\ mix_i = samples_per_measure \div 2
    /\ Len(loops[recording_at_index]) = samples_per_measure - BUFFER_SIZE

\* a loop of two measures is read in its second measure
C34_SecondMeasure ==
    /\ AboutToPush
    /\ \E a \in active_loops : a[1] = 1


\* C35: with the producer following the clock protocol and
\* BUFFER_SIZE < samples_per_measure/2, none of the loop engine's sanity
\* panics is reachable: increment is never applied to a status that is not
\* On, finish-recording is never entered for a loop that is not RecordEnd,
\* the finished buffer is always a whole number of measures, no PreTick is
\* ever popped during the finish-recording drain, and a Tick never finds an
\* unfinished RecordEnd.
C35_NoSanityPanic ==
    /\ lpc # "dead"
    /\ (lpc = "mix" /\ mix_i = samples_per_measure) =>
           CanIncrement(status, active_loops)
    /\ (AboutToPush /\ partial_recording /\ mix_i <= samples_per_measure \div 2) =>
           status[recording_at_index] = RecordEnd
    /\ (lpc = "finish" /\ stream # <<>>) =>
           /\ Head(stream) # PreTick
           /\ Head(stream) = Tick =>
                  Len(loops[recording_at_index]) % samples_per_measure = 0
    /\ (lpc = "run" /\ ~any_recording) =>
           \A i \in LoopIds : status[i] # RecordEnd

\* the offsets are about to be incremented after a mix in which a
\* recording was finished, the drain having returned on its Tick
C35_Witness ==
    /\ lpc = "mix"
    /\ mix_i = samples_per_measure
    /\ partial_recording
    /\ status[recording_at_index] = On(0)
    /\ Len(loops[recording_at_index]) = 2 * samples_per_measure
    /\ cmds = MaxCmds

\* the drain is about to return on the Tick
C35_DrainAtTick ==
    /\ lpc = "finish"
    /\ stream # <<>>
    /\ Head(stream) = Tick


\* the callback is still being invoked: it has not panicked and the
\* transport has blocks left
CallbackRuns == ppc # "dead" /\ (ppc = "play" \/ fed + BUFFER_SIZE <= Horizon)

\* the samples of its last measure the loop being closed holds
HeldOfMeasure == Len(loops[recording_at_index]) % samples_per_measure

\* the drain of finish_recording_loop appends the one block the measure
\* still lacks and meets the Tick next; the callback is not starved while
\* the drain waits for that Tick
DrainTakesOneBlock ==
    /\ (AboutToPush /\ partial_recording /\ mix_i <= FinishPosition) =>
           HeldOfMeasure = samples_per_measure - BUFFER_SIZE
    /\ lpc = "finish" =>
           /\ Len(mixed) = FinishPosition + 1
           /\ HeldOfMeasure = 0 \/ HeldOfMeasure >= samples_per_measure - BUFFER_SIZE
           /\ stream # <<>> =>
                  IF HeldOfMeasure = 0 THEN Head(stream) = Tick
                  ELSE Head(stream)[1] = "Data"
           /\ (ppc = "play" /\ \A k \in DOMAIN stream : stream[k] # Tick) =>
                  Len(playback) >= BUFFER_SIZE

\* the callback has stopped before it sent the Tick the drain waits for:
\* the drain has popped every event sent and the last of them is no Tick
DrainStarved ==
    /\ lpc = "finish"
    /\ stream = <<>>
    /\ ~CallbackRuns
    /\ sent[Len(sent)] # "Tick"

\* C36: the finish-recording drain appends exactly BUFFER_SIZE Data samples
\* (the one block left in the measure) and then returns on the Tick;
\* provided the audio callback keeps being invoked the drain always
\* terminates, and the callback is never starved by it, the
\* samples_per_measure/2 + 1 mixed values already pushed covering the
\* blocks needed before the Tick arrives.
C36_DrainTerminates ==
    /\ []DrainTakesOneBlock
    /\ (lpc = "finish") ~> (lpc # "finish" \/ DrainStarved)

\* the drain has returned on its Tick and the mix goes on
C36_Witness ==
    /\ pace = "live"
    /\ lpc = "mix"
    /\ partial_recording
    /\ mix_i = FinishPosition + 1
    /\ HeldOfMeasure = 0
    /\ CallbackRuns

\* while the callback runs the drain is still waiting for its Tick
C36_DrainWaiting ==
    /\ lpc = "finish"
    /\ stream = <<>>
    /\ CallbackRuns


\* values pushed to the mixed-audio channel so far, the prefill included
PushedMixed ==
    LET pre == Len(SelectSeq(PoppedMarkers, LAMBDA k : k = "PreTick"))
    IN IF lpc \in {"mix", "finish"}
       THEN samples_per_measure * pre + mix_i
       ELSE samples_per_measure * (pre + 1)
\* values the callback has popped from it so far
PoppedMixed == IF ppc = "idle" THEN fed ELSE fed - BUFFER_SIZE
\* position in its measure of the n-th sample (n = 1, 2, ...)
PositionOf(n) == (n - 1) % samples_per_measure
\* what loop i can contribute at position p of a measure: nothing, or its
\* sample at position p of one of its measures
Contributions(i, p) ==
    {0} \cup {loops[i][k + 1] : k \in {q \in 0 .. Len(loops[i]) - 1 :
                                          q % samples_per_measure = p}}
\* the sums of one contribution per loop at position p
AlignedSums(p) ==
    {a + b + c : a \in Contributions(0, p), b \in Contributions(1, p),
                 c \in Contributions(2, p)}

\* C37: mixed audio is measure-aligned with the live stream: counting the
\* prefill of one metronome measure, the i-th value pushed to the
\* mixed-audio channel is added to the output at the i-th input sample, so
\* that the measure mixed at a PreTick is heard as the measure after the
\* next Tick, and a loop sample recorded at position p of a measure is
\* replayed at position p of later measures.
C37_MixAlignedWithStream ==
    ppc # "dead" =>
        /\ Len(playback) = PushedMixed - PoppedMixed
        /\ \A j \in DOMAIN playback :
               playback[j] \in AlignedSums(PositionOf(PoppedMixed + j))
        /\ (ppc = "idle" /\ fed > 0) =>
               \A j \in 1 .. BUFFER_SIZE :
                   LET n == fed - BUFFER_SIZE + j
                   IN output[j] - InputAt(n) \in AlignedSums(PositionOf(n))
        /\ lpc \in {"mix", "finish"} => PositionOf(PushedMixed + 1) = mix_i % samples_per_measure

\* a recorded sample is heard, with the metronome, at the position of the
\* measure at which it was recorded
C37_Witness ==
    \E i \in LoopIds \ {0} :
        /\ ppc = "idle"
        /\ fed > 2 * samples_per_measure
        /\ Len(loops[i]) >= samples_per_measure
        /\ PositionOf(fed) = 1
        /\ output[BUFFER_SIZE] =
               InputAt(fed) + loops[i][PositionOf(fed) + 1] + loops[0][PositionOf(fed) + 1]


\* finish_recording_loop has completed for loop i
Completed(i) ==
    /\ status[i].s \in {"On", "Off"}
    /\ ~(lpc = "finish" /\ recording_at_index = i)

\* loops that are Empty or RecordStart hold nothing
UnrecordedAreEmpty ==
    \A i \in LoopIds :
        status[i] \in {Empty, RecordStart} => (loops[i] = <<>> /\ lengths[i] = 0)

\* C38: recorded loops are write-once: no loop ever returns to Empty; once
\* finish-recording has completed for a loop, its sample buffer and
\* length_measures never change again under any later command or clock
\* event; the buffers of loops that are Empty or RecordStart are always
\* empty, with length_measures 0.
C38_WriteOnce ==
    /\ []UnrecordedAreEmpty
    /\ [][\A i \in LoopIds :
              /\ status[i] # Empty => status'[i] # Empty
              /\ Completed(i) => (loops'[i] = loops[i] /\ lengths'[i] = lengths[i])]_vars

\* a second loop is being recorded after a first one was completed
C38_Witness ==
    \E i, j \in LoopIds \ {0} :
        /\ Completed(i)
        /\ Len(loops[i]) >= samples_per_measure
        /\ status[j] = Recording
        /\ loops[j] # <<>>


\* a PreTick is being handled: enqueue_loops is running, the drain of
\* finish_recording_loop included
HandlingPreTick == lpc \in {"mix", "finish"}

\* the loops whose status a step changes
StatusChanged == {i \in LoopIds : status'[i] # status[i]}

\* the loops and offsets summed are those of the statuses the PreTick found
MixesWhatPreTickFound ==
    HandlingPreTick =>
        /\ pre_status # <<>>
        /\ active_loops = ActiveLoops(pre_status)
        /\ Len(mixed) = mix_i
        /\ \A i \in LoopIds :
               status[i] # pre_status[i] =>
                   /\ i = recording_at_index
                   /\ pre_status[i] = RecordEnd
                   /\ status[i] = On(0)

\* C39: commands never take effect in the middle of a mixed measure: the
\* loop engine handles at most one command per iteration and none while a
\* PreTick is being handled (the finish-recording drain included), so the
\* set of loops and offsets summed is the same for all samples_per_measure
\* positions of one mixed measure.
C39_NoCommandMidMeasure ==
    /\ []MixesWhatPreTickFound
    /\ [][/\ HandleMessage =>
                 /\ ~HandlingPreTick
                 /\ loop_messages' = Tail(loop_messages)
                 /\ Cardinality(StatusChanged) <= 1
          /\ HandlingPreTick =>
                 /\ Len(loop_messages') >= Len(loop_messages)
                 /\ SubSeq(loop_messages', 1, Len(loop_messages)) = loop_messages
                 /\ active_loops' = active_loops
          /\ (MixStep /\ lpc' # "dead") =>
                 playback' = Append(playback,
                                    MixedSample(loops, ActiveLoops(pre_status), mix_i))]_vars

\* two commands wait while the second half of a measure is mixed
C39_Witness ==
    /\ pace = "live"
    /\ lpc = "mix"
    /\ mix_i > FinishPosition
    /\ Len(loop_messages) = 2
    /\ Cardinality(active_loops) = 1

\* a command is handled while another one waits
C39_OneOfTwoHandled ==
    /\ pace = "live"
    /\ Len(loop_messages) = 1
    /\ cmds = 2
    /\ last_handled # <<>>
    /\ last_handled[1] = "ToggleLoop"


\* the run has ended without the PreTick and Tick that close loop i's
\* recording: the callback has stopped and the loop engine has popped every
\* event it sent
NothingLeftFor(i) ==
    /\ ~CallbackRuns
    /\ stream = <<>>
    /\ \/ lpc = "run" /\ status[i] = RecordEnd
       \/ DrainStarved /\ recording_at_index = i

\* the PreTick that finds a loop in RecordEnd is the one that completes it,
\* and the loop in RecordEnd is the one at the recording index
FirstPreTickCompletes ==
    /\ \A i \in LoopIds :
           (HandlingPreTick /\ pre_status # <<>> /\ pre_status[i] = RecordEnd) =>
               (partial_recording /\ recording_at_index = i)
    /\ PreTickHandled => \A i \in LoopIds : status[i] # RecordEnd
    /\ \A i \in LoopIds : status[i] = RecordEnd => i = recording_at_index

\* C40: with the callback kept being invoked and the loop engine scheduled
\* fairly, every loop that enters RecordEnd eventually becomes On, no later
\* than the handling of the second PreTick after the StopRecording was
\* handled, and the recording flag is then clear, so that a new recording
\* can be armed.
C40_RecordEndBecomesOn ==
    /\ []FirstPreTickCompletes
    /\ (status[recording_at_index] = RecordEnd) ~>
           \/ /\ lpc = "run"
              /\ status[recording_at_index].s = "On"
              /\ ~any_recording
              /\ PreTickHandled
           \/ NothingLeftFor(recording_at_index)

\* a loop stopped after its measure's PreTick has become On one measure
\* later, and the flag is clear
C40_Witness ==
    \E i \in LoopIds \ {0} :
        /\ pace = "live"
        /\ lpc = "run"
        /\ status[i].s = "On"
        /\ ~any_recording
        /\ lengths[i] = 2
        /\ PreTickHandled
====
